---- MODULE Spec2Model ----
(***************************************************************************)
(* Model of the cloudflared charm (src/src/charm.py): the reconcile pass   *)
(* that keeps the charmed-cloudflared snap instances of a machine in sync  *)
(* with the tunnel-token charm config and the cloudflared-route relations. *)
(*                                                                         *)
(* Strings the code takes apart (snap names, channels, decimal renderings) *)
(* are sequences of pieces; opaque strings (tokens, secret ids) are TLA+   *)
(* strings.                                                                *)
(***************************************************************************)
EXTENDS Integers, Sequences, FiniteSets, TLC

(* ------------------------------ bounds -------------------------------- *)

\* The number of events (runs of the _reconcile handler) in a behaviour.
MaxEvents == 5

(* --------------------------- program constants ------------------------ *)

CHARMED_CLOUDFLARED_SNAP_NAME == <<"charmed-cloudflared">>

TUNNEL_TOKEN_CONFIG_NAME == "tunnel-token"

ConfigMetricsPort == 15299

RelationMetricsPortBase == 15300

MaxRelationId == 999999

\* Python's None.
None == "None"

(* ------------------------------ strings -------------------------------- *)

DigitChars == <<"0", "1", "2", "3", "4", "5", "6", "7", "8", "9">>

\* str(n) of a non-negative int: its decimal digits.
RECURSIVE IntToStr(_)
IntToStr(n) ==
    IF n < 10 THEN <<DigitChars[n + 1]>>
    ELSE IntToStr(n \div 10) \o <<DigitChars[(n % 10) + 1]>>

\* s.startswith(prefix)
StartsWith(s, prefix) ==
    /\ Len(s) >= Len(prefix)
    /\ SubSeq(s, 1, Len(prefix)) = prefix

\* The set of all orderings of a finite set, as sequences without repeats.
Perms(S) ==
    {f \in [1..Cardinality(S) -> S] : \A i, j \in 1..Cardinality(S) : f[i] = f[j] => i = j}

\* f"{CHARMED_CLOUDFLARED_SNAP_NAME}_config0"
ConfigInstanceName == CHARMED_CLOUDFLARED_SNAP_NAME \o <<"_config0">>

\* f"{CHARMED_CLOUDFLARED_SNAP_NAME}_rel{relation.id}"
\* The name with the suffix the unit tests still expect.
RelationInstanceNameOld(id) == CHARMED_CLOUDFLARED_SNAP_NAME \o <<"_relation">> \o IntToStr(id)

RelationInstanceName(id) == CHARMED_CLOUDFLARED_SNAP_NAME \o <<"_rel">> \o IntToStr(id)

(* --------------------------- snap channel ------------------------------ *)

\* channel.split("/"): the pieces between the separators, at least one.
RECURSIVE Split(_, _)
Split(s, sep) ==
    IF \A i \in 1..Len(s) : s[i] # sep THEN <<s>>
    ELSE LET k == CHOOSE i \in 1..Len(s) : s[i] = sep /\ \A j \in 1..(i - 1) : s[j] # sep
         IN  <<SubSeq(s, 1, k - 1)>> \o Split(SubSeq(s, k + 1, Len(s)), sep)

TrackChars ==
    {"0", "1", "2", "3", "4", "5", "6", "7", "8", "9", ".", "-",
     "a", "b", "c", "d", "e", "f", "g", "h", "i", "j", "k", "l", "m",
     "n", "o", "p", "q", "r", "s", "t", "u", "v", "w", "x", "y", "z"}

\* bool(re.match("^[0-9a-z.-]+$", s)): '$' also matches before one trailing "\n".
ReMatchTrack(s) ==
    LET body == IF Len(s) > 0 /\ s[Len(s)] = "\n" THEN SubSeq(s, 1, Len(s) - 1) ELSE s
    IN  /\ Len(body) > 0
        /\ \A i \in 1..Len(body) : body[i] \in TrackChars

Risks ==
    {<<"s", "t", "a", "b", "l", "e">>,
     <<"c", "a", "n", "d", "i", "d", "a", "t", "e">>,
     <<"b", "e", "t", "a">>,
     <<"e", "d", "g", "e">>}

\* TRUE iff _get_charmed_cloudflared_snap_channel raises no InvalidConfig for the channel.
\* An absent track or branch (None) is falsy like the empty string and is held as <<>>.
SnapChannelValid(channel) ==
    LET components == Split(channel, "/")
        n == Len(components)
        track == IF n = 1 THEN <<>> ELSE components[1]
        risk == IF n = 1 THEN components[1] ELSE components[2]
        branch == IF n = 3 THEN components[3] ELSE <<>>
    IN  /\ ~ (n > 3)
        /\ ~ (track # <<>> /\ ~ ReMatchTrack(track))
        /\ ~ (risk = <<>> \/ risk \notin Risks)
        /\ ~ (branch # <<>> /\ ~ ReMatchTrack(branch))

InvalidChannelMessage == <<"invalid charmed-cloudflared-snap-channel configuration">>

\* _get_charmed_cloudflared_snap_channel: the channel unchanged, or InvalidConfig.
GetCharmedCloudflaredSnapChannel(channel) ==
    IF SnapChannelValid(channel)
    THEN [exc |-> None, msg |-> <<>>, value |-> channel]
    ELSE [exc |-> "InvalidConfig", msg |-> InvalidChannelMessage, value |-> <<>>]

ChannelLatestStable == <<"l", "a", "t", "e", "s", "t", "/", "s", "t", "a", "b", "l", "e">>

ChannelEmpty == <<>>

ChannelLatestEdge == <<"l", "a", "t", "e", "s", "t", "/", "e", "d", "g", "e">>

(* ------------------------------ secrets -------------------------------- *)

\* The secrets of the Juju model: content by id; a missing id is not in the store.
SecretStore ==
    [id \in {"secret:foo", "secret:bar", "secret:nofield", "secret:denied"} |->
        [granted |-> id # "secret:denied",
         content |-> CASE id = "secret:foo" -> [f \in {"tunnel-token"} |-> "foo"]
                       [] id = "secret:bar" -> [f \in {"tunnel-token"} |-> "bar"]
                       [] id = "secret:nofield" -> [f \in {"token"} |-> "foo"]
                       [] OTHER -> [f \in {"tunnel-token"} |-> "foobar"]]]

\* self.model.get_secret(id=...).get_content(refresh=True)[field]
SecretField(id, field) ==
    IF id \notin DOMAIN SecretStore THEN [exc |-> "SecretNotFoundError", value |-> None]
    ELSE IF ~ SecretStore[id].granted THEN [exc |-> "ModelError", value |-> None]
    ELSE IF field \notin DOMAIN SecretStore[id].content THEN [exc |-> "KeyError", value |-> None]
    ELSE [exc |-> None, value |-> SecretStore[id].content[field]]

\* Python truthiness of an optional string.
Truthy(v) == v # None /\ v # ""

(* ------------------------------- state --------------------------------- *)

VARIABLES
    tunnel_token_config,   \* self.config.get("tunnel-token"): None, "" or a secret id
    snap_channel_config,   \* self.config["charmed-cloudflared-snap-channel"]
    relations,             \* self.model.relations["cloudflared-route"]: relation id -> record
    snaps,                 \* the snaps installed on the machine: instance name -> instance
    status,                \* self.unit.status
    raised,                \* the exception that left the last handler, or None
    calls,                 \* the effect calls the last handler issued, in order
    repeat,                \* the last pass saw the inputs of a completed pass before it
    stopped,               \* the stop handler has completed
    events                 \* the number of events so far

vars ==
    <<tunnel_token_config, snap_channel_config, relations, snaps, status, raised, calls,
      repeat, stopped, events>>

inputs == <<tunnel_token_config, snap_channel_config, relations>>

\* The relation ids the model draws from, all within the ceiling.
RelationIds == {3, 7}

\* Relation ids on both sides of the ceiling.
CeilingRelationIds == {3, MaxRelationId + 1}

Nameservers == {"10.0.0.1"}

\* A relation without a remote application.
NoAppRecord == [app |-> FALSE, secret_id |-> None, nameserver |-> None]

\* A relation with a remote application that gave the secret id and nameserver.
AppRecord(secret_id, nameserver) ==
    [app |-> TRUE, secret_id |-> secret_id, nameserver |-> nameserver]

\* What one cloudflared-route relation can look like from this unit.
PeerRecords ==
    {NoAppRecord, AppRecord(None, None), AppRecord("secret:foo", None),
     AppRecord("secret:bar", None), AppRecord("secret:nofield", None)}
    \cup {AppRecord("secret:foo", ns) : ns \in Nameservers}

\* The records of the relations around the ceiling: skippable, valid and invalid ones.
CeilingPeerRecords ==
    {NoAppRecord, AppRecord(None, None), AppRecord("secret:foo", None),
     AppRecord("secret:nofield", None), AppRecord("secret:missing", None)}

TunnelTokenConfigs == {"", "secret:foo", "secret:bar", "secret:missing"}

SnapChannelConfigs == {ChannelLatestStable, ChannelEmpty}

(* ----------------------- cloudflared_route library --------------------- *)

\* CloudflaredRouteRequirer.get_tunnel_token(relation): the token, None when the relation
\* has no remote application or no secret id, InvalidIntegration when the secret cannot be
\* found or lacks the tunnel-token field.
GetTunnelToken(relation) ==
    IF ~ relation.app THEN [exc |-> None, value |-> None]
    ELSE IF ~ Truthy(relation.secret_id) THEN [exc |-> None, value |-> None]
    ELSE LET got == SecretField(relation.secret_id, "tunnel-token")
         IN  IF got.exc \in {"SecretNotFoundError", "KeyError"}
             THEN [exc |-> "InvalidIntegration", value |-> None]
             ELSE got

\* CloudflaredRouteRequirer.get_nameserver(relation)
GetNameserver(relation) == IF relation.app THEN relation.nameserver ELSE None

(* ----------------------------- resolution ------------------------------ *)

NoSpecs == <<>>

ConflictMessage == <<"tunnel-token is provided by both the config and integration">>

InvalidTokenConfigMessage == <<"invalid tunnel-token config">>

InvalidIntegrationMessage(id) ==
    <<"received invalid data from ", "cloudflared-route", " integration: ">>

\* The loop with the relations without a token skipped before the ceiling is looked at.
RECURSIVE RelationTunnelSpecsSkipFirst(_, _, _, _)
RelationTunnelSpecsSkipFirst(rels, order, i, acc) ==
    IF i > Len(order) THEN [exc |-> None, msg |-> <<>>, specs |-> acc]
    ELSE LET id == order[i]
             tunnel_token == GetTunnelToken(rels[id])
         IN  IF tunnel_token.exc = "InvalidIntegration"
             THEN [exc |-> "InvalidConfig", msg |-> InvalidIntegrationMessage(id),
                   specs |-> NoSpecs]
             ELSE IF tunnel_token.exc # None
             THEN [exc |-> tunnel_token.exc, msg |-> <<>>, specs |-> NoSpecs]
             ELSE IF ~ Truthy(tunnel_token.value)
             THEN RelationTunnelSpecsSkipFirst(rels, order, i + 1, acc)
             ELSE IF id > MaxRelationId
             THEN [exc |-> "RuntimeError",
                   msg |-> <<"relation id exceeds maximum allowed value">>, specs |-> NoSpecs]
             ELSE RelationTunnelSpecsSkipFirst(rels, order, i + 1,
                      Append(acc, [name |-> RelationInstanceName(id),
                                   tunnel_token |-> tunnel_token.value,
                                   nameserver |-> GetNameserver(rels[id])]))

\* The for loop of _get_instance_tunnel_specs over the relations, in the order given.
RECURSIVE RelationTunnelSpecs(_, _, _, _)
RelationTunnelSpecs(rels, order, i, acc) ==
    IF i > Len(order) THEN [exc |-> None, msg |-> <<>>, specs |-> acc]
    ELSE LET id == order[i]
             tunnel_token == GetTunnelToken(rels[id])
         IN  IF tunnel_token.exc = "InvalidIntegration"
             THEN [exc |-> "InvalidConfig", msg |-> InvalidIntegrationMessage(id),
                   specs |-> NoSpecs]
             ELSE IF tunnel_token.exc # None
             THEN [exc |-> tunnel_token.exc, msg |-> <<>>, specs |-> NoSpecs]
             ELSE IF id > MaxRelationId
             THEN [exc |-> "RuntimeError",
                   msg |-> <<"relation id exceeds maximum allowed value">>, specs |-> NoSpecs]
             ELSE IF Truthy(tunnel_token.value)
             THEN RelationTunnelSpecs(rels, order, i + 1,
                      Append(acc, [name |-> RelationInstanceName(id),
                                   tunnel_token |-> tunnel_token.value,
                                   nameserver |-> GetNameserver(rels[id])]))
             ELSE RelationTunnelSpecs(rels, order, i + 1, acc)

\* Every failure of the secret store turned into InvalidConfig.
GetInstanceTunnelSpecsCatchAll(token_config, rels, order) ==
    IF Truthy(token_config) /\ Len(order) > 0
    THEN [exc |-> "InvalidConfig", msg |-> ConflictMessage, specs |-> NoSpecs]
    ELSE IF Truthy(token_config)
    THEN LET got == SecretField(token_config, TUNNEL_TOKEN_CONFIG_NAME)
         IN  IF got.exc # None
             THEN [exc |-> "InvalidConfig", msg |-> InvalidTokenConfigMessage,
                   specs |-> NoSpecs]
             ELSE [exc |-> None, msg |-> <<>>,
                   specs |-> <<[name |-> ConfigInstanceName, tunnel_token |-> got.value,
                                nameserver |-> None]>>]
    ELSE RelationTunnelSpecs(rels, order, 1, NoSpecs)

\* The conflict check left out: the config token wins over the relations.
GetInstanceTunnelSpecsNoConflict(token_config, rels, order) ==
    IF Truthy(token_config)
    THEN LET got == SecretField(token_config, TUNNEL_TOKEN_CONFIG_NAME)
         IN  IF got.exc \in {"SecretNotFoundError", "KeyError"}
             THEN [exc |-> "InvalidConfig", msg |-> InvalidTokenConfigMessage,
                   specs |-> NoSpecs]
             ELSE IF got.exc # None
             THEN [exc |-> got.exc, msg |-> <<>>, specs |-> NoSpecs]
             ELSE [exc |-> None, msg |-> <<>>,
                   specs |-> <<[name |-> ConfigInstanceName, tunnel_token |-> got.value,
                                nameserver |-> None]>>]
    ELSE RelationTunnelSpecs(rels, order, 1, NoSpecs)

\* _get_instance_tunnel_specs: the raised exception, or the mapping in insertion order.
GetInstanceTunnelSpecs(token_config, rels, order) ==
    IF Truthy(token_config) /\ Len(order) > 0
    THEN [exc |-> "InvalidConfig", msg |-> ConflictMessage, specs |-> NoSpecs]
    ELSE IF Truthy(token_config)
    THEN LET got == SecretField(token_config, TUNNEL_TOKEN_CONFIG_NAME)
         IN  IF got.exc \in {"SecretNotFoundError", "KeyError"}
             THEN [exc |-> "InvalidConfig", msg |-> InvalidTokenConfigMessage,
                   specs |-> NoSpecs]
             ELSE IF got.exc # None
             THEN [exc |-> got.exc, msg |-> <<>>, specs |-> NoSpecs]
             ELSE [exc |-> None, msg |-> <<>>,
                   specs |-> <<[name |-> ConfigInstanceName, tunnel_token |-> got.value,
                                nameserver |-> None]>>]
    ELSE RelationTunnelSpecs(rels, order, 1, NoSpecs)

\* The relation id left out of the port: every relation gets the base port.
GetInstanceMetricsPortsShared(token_config, rels) ==
    LET ids == {id \in DOMAIN rels : rels[id].app}
        names == (IF Truthy(token_config) THEN {ConfigInstanceName} ELSE {})
                 \cup {RelationInstanceName(id) : id \in ids}
    IN  [n \in names |->
            IF \E id \in ids : RelationInstanceName(id) = n
            THEN RelationMetricsPortBase
            ELSE ConfigMetricsPort]

\* _get_instance_metrics_ports: instance name -> metrics port.
GetInstanceMetricsPorts(token_config, rels) ==
    LET ids == {id \in DOMAIN rels : rels[id].app}
        names == (IF Truthy(token_config) THEN {ConfigInstanceName} ELSE {})
                 \cup {RelationInstanceName(id) : id \in ids}
    IN  [n \in names |->
            IF \E id \in ids : RelationInstanceName(id) = n
            THEN RelationMetricsPortBase + (CHOOSE id \in ids : RelationInstanceName(id) = n)
            ELSE ConfigMetricsPort]

\* _get_installed_cloudflared_snaps
GetInstalledCloudflaredSnaps(installed) ==
    {name \in DOMAIN installed : StartsWith(name, CHARMED_CLOUDFLARED_SNAP_NAME)}

(* ------------------------------ the snaps ------------------------------ *)

NoFile == [exists |-> FALSE, content |-> <<>>]

File(content) == [exists |-> TRUE, content |-> content]

\* /etc/ssl/certs/ca-certificates.crt of the host
HostCaCertificates == <<"host ca bundle">>

\* /etc/resolv.conf of the host
HostResolvConf == <<"nameserver ", "127.0.0.53">>

NoConfig == [key \in {} |-> ""]

\* An instance right after "snap install --channel=<channel> <name>".
InstalledSnap(channel) ==
    [config |-> NoConfig, ca |-> NoFile, resolv |-> NoFile, channel |-> channel,
     svc |-> "running"]

\* str(value) of a config value: the metrics port is an int, the token a str.
StrOfConfigValue(key, value) == IF key = "metrics-port" THEN IntToStr(value) ELSE value

\* The config dict of one instance in _reconcile.
DesiredConfig(spec, metrics_ports) ==
    [key \in {"tunnel-token", "metrics-port"} |->
        IF key = "tunnel-token" THEN spec.tunnel_token ELSE metrics_ports[spec.name]]

\* charmed_cloudflared.get(key) == str(value): a key that is not set equals no string.
LiveEquals(instance, key, value) ==
    /\ key \in DOMAIN instance.config
    /\ instance.config[key] = StrOfConfigValue(key, value)

\* The guard looking at the metrics port alone.
NeedsConfigurePortOnly(instance, config) ==
    ~ LiveEquals(instance, "metrics-port", config["metrics-port"])

\* The guard left out: every pass configures and restarts every instance.
NeedsConfigureAlways(instance, config) == TRUE

\* The negation of the all(...) of _reconcile that skips set-config, stop and start.
NeedsConfigure(instance, config) ==
    ~ (\A key \in DOMAIN config : LiveEquals(instance, key, config[key]))

\* The resolv.conf content _update_cloudflared_resolv_conf wants.
DesiredResolvConf(nameserver) ==
    IF nameserver = None THEN HostResolvConf ELSE <<"nameserver ", nameserver>>

\* The file written in every pass, changed or not.
NeedsResolvConfAlways(instance, nameserver) == TRUE

\* The file written only for a nameserver override, never for the host default.
NeedsResolvConfOverrideOnly(instance, nameserver) ==
    /\ nameserver # None
    /\ (~ instance.resolv.exists \/ instance.resolv.content # DesiredResolvConf(nameserver))

\* The condition under which _update_cloudflared_resolv_conf writes the file.
NeedsResolvConf(instance, nameserver) ==
    ~ instance.resolv.exists \/ instance.resolv.content # DesiredResolvConf(nameserver)

\* The condition under which _update_ca_certificate_crt writes the file.
NeedsCaCertificates(instance) ==
    ~ instance.ca.exists \/ instance.ca.content # HostCaCertificates

\* The argument of a set-config call, flattened: the token, then the digits of the port.
ConfigArg(config) ==
    <<config["tunnel-token"]>> \o StrOfConfigValue("metrics-port", config["metrics-port"])

Call(op, name, arg) == [op |-> op, name |-> name, arg |-> arg]

\* The calls of one iteration of the configure loop of _reconcile, for an instance that is
\* in the state `instance` when the iteration starts.
ConfigureCalls(spec, instance, channel, metrics_ports) ==
    LET config == DesiredConfig(spec, metrics_ports)
    IN  <<Call("refresh", spec.name, channel)>>
        \o (IF NeedsCaCertificates(instance)
            THEN <<Call("write-ca", spec.name, HostCaCertificates)>> ELSE <<>>)
        \o (IF NeedsResolvConf(instance, spec.nameserver)
            THEN <<Call("write-resolv", spec.name, DesiredResolvConf(spec.nameserver))>>
            ELSE <<>>)
        \o (IF NeedsConfigure(instance, config)
            THEN <<Call("set", spec.name, ConfigArg(config)),
                   Call("stop", spec.name, <<>>),
                   Call("start", spec.name, <<>>)>>
            ELSE <<>>)

\* What one successful effect call does to the machine.
Apply(installed, call) ==
    LET name == call.name
    IN  CASE call.op = "remove" ->
               [n \in DOMAIN installed \ {name} |-> installed[n]]
          [] call.op = "install" ->
               [n \in DOMAIN installed \cup {name} |->
                   IF n = name THEN InstalledSnap(call.arg) ELSE installed[n]]
          [] call.op = "refresh" ->
               [installed EXCEPT ![name].channel = call.arg]
          [] call.op = "write-ca" ->
               [installed EXCEPT ![name].ca = File(call.arg)]
          [] call.op = "write-resolv" ->
               [installed EXCEPT ![name].resolv = File(call.arg)]
          [] call.op = "set" ->
               [installed EXCEPT
                   ![name].config =
                       [key \in {"tunnel-token", "metrics-port"} |->
                           IF key = "tunnel-token" THEN call.arg[1]
                           ELSE SubSeq(call.arg, 2, Len(call.arg))],
                   ![name].svc = IF @ = "stopped" THEN "stopped" ELSE "stale"]
          [] call.op = "stop" ->
               [installed EXCEPT ![name].svc = "stopped"]
          [] call.op = "start" ->
               [installed EXCEPT ![name].svc = "running"]

\* The machine after the first n calls of a plan have succeeded.
RECURSIVE ApplyAll(_, _, _)
ApplyAll(installed, plan, n) ==
    IF n = 0 THEN installed
    ELSE Apply(ApplyAll(installed, plan, n - 1), plan[n])

RECURSIVE Flatten(_)
Flatten(seqs) == IF seqs = <<>> THEN <<>> ELSE Head(seqs) \o Flatten(Tail(seqs))

(* --------------------------- the reconcile pass ------------------------ *)

Status(name, message) == [name |-> name, message |-> message]

\* The removal loop left out: no instance is ever removed.
InstancesToRemoveNone(installed_names, required) == {}

\* installed_charmed_cloudflared - required_snap_instances
InstancesToRemove(installed_names, required) == installed_names \ required

\* required_snap_instances - installed_charmed_cloudflared
InstancesToInstall(installed_names, required) == required \ installed_names

\* What a pass leaves behind: the machine, the unit status, the exception that left the
\* handler and the effect calls issued.
Outcome(installed, new_status, exc, issued) ==
    [snaps |-> installed, status |-> new_status, raised |-> exc, calls |-> issued]

\* The except branch tearing down every instance before it returns.
BlockedOutcomeTearDown(installed, msg) ==
    Outcome([n \in DOMAIN installed \ GetInstalledCloudflaredSnaps(installed) |-> installed[n]],
            Status("blocked", msg), None, <<>>)

\* except InvalidConfig: the status is Blocked with str(exc) and the handler returns.
BlockedOutcome(installed, msg) == Outcome(installed, Status("blocked", msg), None, <<>>)

\* Every exception of the getters caught and turned into Blocked.
RaisedOutcomeAbsorbed(installed, old_status, exc) ==
    Outcome(installed, Status("blocked", <<exc>>), None, <<>>)

\* An exception of the getters that is no InvalidConfig leaves the handler.
RaisedOutcome(installed, old_status, exc) == Outcome(installed, old_status, exc, <<>>)

\* No required snap instance: the status is Waiting and the handler returns.
WaitingOutcome(installed) ==
    Outcome(installed, Status("waiting", <<"waiting for tunnel token">>), None, <<>>)

\* The apply phase with the installs ahead of the removals.
ApplyPlanInstallFirst(installed, channel, metrics_ports, specs, remove_order, install_order) ==
    LET installs == {install_order[i] : i \in 1..Len(install_order)}
        before(name) == IF name \in installs THEN InstalledSnap(channel) ELSE installed[name]
    IN  [i \in 1..Len(install_order) |-> Call("install", install_order[i], channel)]
        \o [i \in 1..Len(remove_order) |-> Call("remove", remove_order[i], <<>>)]
        \o Flatten([i \in 1..Len(specs) |->
                      ConfigureCalls(specs[i], before(specs[i].name), channel, metrics_ports)])

\* Every call the apply phase of _reconcile issues when none fails: the removals in the
\* order remove_order, the installs in the order install_order, then the configure loop
\* over tunnel_specs.
ApplyPlan(installed, channel, metrics_ports, specs, remove_order, install_order) ==
    LET installs == {install_order[i] : i \in 1..Len(install_order)}
        before(name) == IF name \in installs THEN InstalledSnap(channel) ELSE installed[name]
    IN  [i \in 1..Len(remove_order) |-> Call("remove", remove_order[i], <<>>)]
        \o [i \in 1..Len(install_order) |-> Call("install", install_order[i], channel)]
        \o Flatten([i \in 1..Len(specs) |->
                      ConfigureCalls(specs[i], before(specs[i].name), channel, metrics_ports)])

\* TRUE iff a pass gets past resolution and the Waiting return, into its apply phase.
ReachesApply(snap_channel, metrics_ports, tunnel_specs) ==
    /\ snap_channel.exc = None
    /\ tunnel_specs.exc = None
    /\ DOMAIN metrics_ports # {}

\* The exception a failing effect call raises: subprocess.check_call for install and
\* refresh, the snap library for remove, set, stop and start, pathlib for the files.
FailureOf(call) ==
    IF call.op \in {"install", "refresh"} THEN "CalledProcessError"
    ELSE IF call.op \in {"write-ca", "write-resolv"} THEN "OSError"
    ELSE "SnapError"

\* The pass undoing what it did when an effect call fails.
ReconcilePassRollback(installed, old_status, snap_channel, metrics_ports, tunnel_specs, plan, fail_at) ==
    LET required == DOMAIN metrics_ports
    IN  IF snap_channel.exc = "InvalidConfig"
        THEN BlockedOutcome(installed, snap_channel.msg)
        ELSE IF tunnel_specs.exc = "InvalidConfig"
        THEN BlockedOutcome(installed, tunnel_specs.msg)
        ELSE IF tunnel_specs.exc # None
        THEN RaisedOutcome(installed, old_status, tunnel_specs.exc)
        ELSE IF required = {}
        THEN WaitingOutcome(installed)
        ELSE IF fail_at = 0
        THEN Outcome(ApplyAll(installed, plan, Len(plan)), Status("active", <<>>), None, plan)
        ELSE Outcome(installed, old_status, FailureOf(plan[fail_at]), SubSeq(plan, 1, fail_at))

\* _reconcile, given what its three getters return and the calls its apply phase issues
\* when none fails; fail_at = 0 when every effect call succeeds, else the position in the
\* plan of the call that raises.
ReconcilePass(installed, old_status, snap_channel, metrics_ports, tunnel_specs, plan, fail_at) ==
    LET required == DOMAIN metrics_ports
    IN  IF snap_channel.exc = "InvalidConfig"
        THEN BlockedOutcome(installed, snap_channel.msg)
        ELSE IF tunnel_specs.exc = "InvalidConfig"
        THEN BlockedOutcome(installed, tunnel_specs.msg)
        ELSE IF tunnel_specs.exc # None
        THEN RaisedOutcome(installed, old_status, tunnel_specs.exc)
        ELSE IF required = {}
        THEN WaitingOutcome(installed)
        ELSE IF fail_at = 0
        THEN Outcome(ApplyAll(installed, plan, Len(plan)), Status("active", <<>>), None, plan)
        ELSE Outcome(ApplyAll(installed, plan, fail_at - 1), old_status,
                     FailureOf(plan[fail_at]), SubSeq(plan, 1, fail_at))

\* One run of the _reconcile handler on the inputs given. The relation list and the two
\* set differences are walked in an order the code does not fix.
Reconcile(token_config, channel, rels, may_fail) ==
    /\ events < MaxEvents
    /\ ~ stopped
    /\ UNCHANGED stopped
    /\ \E relation_order \in Perms(DOMAIN rels) :
       \E snap_channel \in {GetCharmedCloudflaredSnapChannel(channel)} :
       \E metrics_ports \in {GetInstanceMetricsPorts(token_config, rels)} :
       \E tunnel_specs \in {GetInstanceTunnelSpecs(token_config, rels, relation_order)} :
       \E installed_names \in {GetInstalledCloudflaredSnaps(snaps)} :
       \E applies \in {ReachesApply(snap_channel, metrics_ports, tunnel_specs)} :
       \E remove_order \in
            IF applies THEN Perms(InstancesToRemove(installed_names, DOMAIN metrics_ports))
            ELSE {<<>>} :
       \E install_order \in
            IF applies THEN Perms(InstancesToInstall(installed_names, DOMAIN metrics_ports))
            ELSE {<<>>} :
       \E plan \in
            IF applies
            THEN {ApplyPlan(snaps, snap_channel.value, metrics_ports, tunnel_specs.specs,
                            remove_order, install_order)}
            ELSE {<<>>} :
       \E fail_at \in 0..(IF may_fail THEN Len(plan) ELSE 0) :
       \E out \in {ReconcilePass(snaps, status, snap_channel, metrics_ports, tunnel_specs,
                                 plan, fail_at)} :
           /\ snaps' = out.snaps
           /\ status' = out.status
           /\ raised' = out.raised
           /\ calls' = out.calls
           /\ events' = events + 1

(* ------------------------------ the events ----------------------------- *)

\* config-changed: the tunnel-token config has a new value.
TunnelTokenChanged(values, may_fail) ==
    \E value \in values :
        /\ value # tunnel_token_config
        /\ tunnel_token_config' = value
        /\ UNCHANGED <<snap_channel_config, relations>>
        /\ repeat' = FALSE
        /\ Reconcile(value, snap_channel_config, relations, may_fail)

\* config-changed: the charmed-cloudflared-snap-channel config has a new value.
SnapChannelChanged(values, may_fail) ==
    \E value \in values :
        /\ value # snap_channel_config
        /\ snap_channel_config' = value
        /\ UNCHANGED <<tunnel_token_config, relations>>
        /\ repeat' = FALSE
        /\ Reconcile(tunnel_token_config, value, relations, may_fail)

\* cloudflared-route-relation-changed on a new relation.
RelationCreated(ids, records, may_fail) ==
    \E id \in ids \ DOMAIN relations, record \in records :
        \E rels \in {[i \in DOMAIN relations \cup {id} |->
                        IF i = id THEN record ELSE relations[i]]} :
            /\ relations' = rels
            /\ UNCHANGED <<tunnel_token_config, snap_channel_config>>
            /\ repeat' = FALSE
            /\ Reconcile(tunnel_token_config, snap_channel_config, rels, may_fail)

\* cloudflared-route-relation-changed: the remote side changed what this unit reads.
RelationChanged(records, may_fail) ==
    \E id \in DOMAIN relations, record \in records :
        \E rels \in {[relations EXCEPT ![id] = record]} :
            /\ record # relations[id]
            /\ relations' = rels
            /\ UNCHANGED <<tunnel_token_config, snap_channel_config>>
            /\ repeat' = FALSE
            /\ Reconcile(tunnel_token_config, snap_channel_config, rels, may_fail)

\* A cloudflared-route relation is gone from the model when the handler next runs.
RelationDeparted(may_fail) ==
    \E id \in DOMAIN relations :
        \E rels \in {[i \in DOMAIN relations \ {id} |-> relations[i]]} :
            /\ relations' = rels
            /\ UNCHANGED <<tunnel_token_config, snap_channel_config>>
            /\ repeat' = FALSE
            /\ Reconcile(tunnel_token_config, snap_channel_config, rels, may_fail)

\* An event that runs _reconcile with every input as the last pass saw it
\* (secret-changed, juju-info events, a retried hook).
Rerun(may_fail) ==
    /\ UNCHANGED inputs
    /\ repeat' = (raised = None /\ status.name # "maintenance")
    /\ Reconcile(tunnel_token_config, snap_channel_config, relations, may_fail)

\* The stop handler returning after the first remove.
OnStopFirstOnly(may_fail) ==
    /\ events < MaxEvents
    /\ ~ stopped
    /\ \E order \in Perms(GetInstalledCloudflaredSnaps(snaps)) :
       \E plan \in {[i \in 1..(IF Len(order) > 0 THEN 1 ELSE 0) |->
                        Call("remove", order[i], <<>>)]} :
       \E fail_at \in 0..(IF may_fail THEN Len(plan) ELSE 0) :
           /\ snaps' = ApplyAll(snaps, plan, IF fail_at = 0 THEN Len(plan) ELSE fail_at - 1)
           /\ calls' = IF fail_at = 0 THEN plan ELSE SubSeq(plan, 1, fail_at)
           /\ raised' = IF fail_at = 0 THEN None ELSE FailureOf(plan[fail_at])
           /\ stopped' = (fail_at = 0)
    /\ repeat' = FALSE
    /\ events' = events + 1
    /\ UNCHANGED <<inputs, status>>

\* stop: _on_stop removes every installed charmed-cloudflared instance, in the order the
\* set of names is walked; a remove that raises leaves the handler.
OnStop(may_fail) ==
    /\ events < MaxEvents
    /\ ~ stopped
    /\ \E order \in Perms(GetInstalledCloudflaredSnaps(snaps)) :
       \E plan \in {[i \in 1..Len(order) |-> Call("remove", order[i], <<>>)]} :
       \E fail_at \in 0..(IF may_fail THEN Len(plan) ELSE 0) :
           /\ snaps' = ApplyAll(snaps, plan, IF fail_at = 0 THEN Len(plan) ELSE fail_at - 1)
           /\ calls' = IF fail_at = 0 THEN plan ELSE SubSeq(plan, 1, fail_at)
           /\ raised' = IF fail_at = 0 THEN None ELSE FailureOf(plan[fail_at])
           /\ stopped' = (fail_at = 0)
    /\ repeat' = FALSE
    /\ events' = events + 1
    /\ UNCHANGED <<inputs, status>>

(* ------------------------- what the claims speak of -------------------- *)

\* The relation ids of rels in ascending order.
RECURSIVE Ascending(_)
Ascending(ids) ==
    IF ids = {} THEN <<>>
    ELSE LET least == CHOOSE i \in ids : \A j \in ids : i <= j
         IN  <<least>> \o Ascending(ids \ {least})

\* The DesiredStateSet of the inputs: what the resolver returns for them.
Desired(token_config, rels) ==
    GetInstanceTunnelSpecs(token_config, rels, Ascending(DOMAIN rels))

\* The instance names of a sequence of tunnel specs.
SpecNames(specs) == {specs[i].name : i \in 1..Len(specs)}

\* The calls of a log that install, remove, configure or restart an instance.
Disruptive(log) ==
    SelectSeq(log, LAMBDA call : call.op \in {"install", "remove", "set", "stop", "start"})

\* The calls of a log with the given op.
CallsOf(log, op) == SelectSeq(log, LAMBDA call : call.op = op)

\* The live config snapd reports for a token and a port given as decimal digits.
LiveConfig(token, port_digits) ==
    [key \in {"tunnel-token", "metrics-port"} |->
        IF key = "tunnel-token" THEN token ELSE port_digits]

\* C1: a pass that follows a completed pass with no input changed in between issues no
\* snap install, no snap remove, no set-config and no stop or start.
C1_Idempotent == repeat => Disruptive(calls) = <<>>

\* A second pass over unchanged inputs ended Active with configured instances and
\* issued only refreshes.
C1_Witness ==
    /\ repeat
    /\ status.name = "active"
    /\ Len(calls) > 0
    /\ \E name \in GetInstalledCloudflaredSnaps(snaps) : snaps[name].config # NoConfig

\* What the resolver can return for the inputs, over the orders the relation list can have.
Resolutions(token_config, rels) ==
    {GetInstanceTunnelSpecs(token_config, rels, order) : order \in Perms(DOMAIN rels)}

\* TRUE iff every relation with a remote application has a token the library resolves.
EveryPeerHasToken(rels) ==
    \A id \in DOMAIN rels :
        rels[id].app => /\ GetTunnelToken(rels[id]).exc = None
                        /\ Truthy(GetTunnelToken(rels[id]).value)

\* The inputs resolve, to a desired set that is not empty and leaves no peer without a token.
Convergent ==
    /\ events > 0
    /\ GetCharmedCloudflaredSnapChannel(snap_channel_config).exc = None
    /\ Desired(tunnel_token_config, relations).exc = None
    /\ Desired(tunnel_token_config, relations).specs # NoSpecs
    /\ EveryPeerHasToken(relations)

\* C2: when resolution succeeds with a non-empty desired set in which every relation that
\* has a remote application has a resolvable token, and no effect call fails, the pass ends
\* Active, the installed instances are exactly the desired names, and each desired
\* instance's live tunnel-token and metrics-port are those of its spec.
C2_ConvergesInOnePass ==
    Convergent =>
        LET specs == Desired(tunnel_token_config, relations).specs
            metrics_ports == GetInstanceMetricsPorts(tunnel_token_config, relations)
        IN  /\ status = Status("active", <<>>)
            /\ raised = None
            /\ GetInstalledCloudflaredSnaps(snaps) = SpecNames(specs)
            /\ \A i \in 1..Len(specs) :
                   snaps[specs[i].name].config =
                       LiveConfig(specs[i].tunnel_token, IntToStr(metrics_ports[specs[i].name]))

\* A pass converged by removing an instance, installing another and configuring it.
C2_Witness ==
    /\ Convergent
    /\ CallsOf(calls, "remove") # <<>>
    /\ CallsOf(calls, "install") # <<>>
    /\ CallsOf(calls, "set") # <<>>

\* C3: when an instance is installed and its desired spec disappears (its relation departs
\* or the config token is cleared), the next pass issues exactly one remove, for that
\* instance, and no install, remove, set-config, stop or start for any other instance,
\* also when the departed instance was the only one.
C3_RemovesDeparted ==
    [][\A name \in GetInstalledCloudflaredSnaps(snaps) :
          (/\ status.name = "active"
           /\ raised = None
           /\ events' = events + 1
           /\ snap_channel_config' = snap_channel_config
           /\ GetCharmedCloudflaredSnapChannel(snap_channel_config).exc = None
           /\ \/ /\ tunnel_token_config' = tunnel_token_config
                 /\ \E id \in DOMAIN relations :
                        relations' = [i \in DOMAIN relations \ {id} |-> relations[i]]
              \/ /\ relations' = relations
                 /\ Truthy(tunnel_token_config)
                 /\ ~ Truthy(tunnel_token_config')
           /\ name \in SpecNames(Desired(tunnel_token_config, relations).specs)
           /\ Desired(tunnel_token_config', relations').exc = None
           /\ name \notin SpecNames(Desired(tunnel_token_config', relations').specs))
          => Disruptive(calls') = <<Call("remove", name, <<>>)>>]_vars

\* C4: a pass whose resolution raises InvalidConfig sets status Blocked with the message of
\* the exception and issues no effect call; the installed instances, their live configs
\* and their files are what they were before the pass.
C4_BlockedHasNoEffects ==
    [][(/\ events' = events + 1
        /\ \/ GetCharmedCloudflaredSnapChannel(snap_channel_config').exc = "InvalidConfig"
           \/ \A r \in Resolutions(tunnel_token_config', relations') :
                  r.exc = "InvalidConfig")
       => /\ status'.name = "blocked"
          /\ status'.message \in
                 IF GetCharmedCloudflaredSnapChannel(snap_channel_config').exc = "InvalidConfig"
                 THEN {GetCharmedCloudflaredSnapChannel(snap_channel_config').msg}
                 ELSE {r.msg : r \in Resolutions(tunnel_token_config', relations')}
          /\ raised' = None
          /\ calls' = <<>>
          /\ snaps' = snaps]_vars

\* A pass ended Blocked with a configured, running instance on the machine.
C4_Witness ==
    /\ status.name = "blocked"
    /\ calls = <<>>
    /\ \E name \in GetInstalledCloudflaredSnaps(snaps) :
           snaps[name].config # NoConfig /\ snaps[name].svc = "running"

\* C5: with a valid snap channel, a non-empty tunnel-token config and at least one
\* cloudflared-route relation, the pass ends Blocked with the message 'tunnel-token is
\* provided by both the config and integration' and issues no effect call.
C5_ConflictFailsClosed ==
    (/\ events > 0
     /\ GetCharmedCloudflaredSnapChannel(snap_channel_config).exc = None
     /\ Truthy(tunnel_token_config)
     /\ DOMAIN relations # {})
    => /\ status = Status("blocked", ConflictMessage)
       /\ raised = None
       /\ calls = <<>>

\* The conflict with two relations, one of them with a resolvable token.
C5_Witness ==
    /\ status = Status("blocked", ConflictMessage)
    /\ Truthy(tunnel_token_config)
    /\ Cardinality(DOMAIN relations) = 2
    /\ \E id \in DOMAIN relations : Truthy(GetTunnelToken(relations[id]).value)

\* C6: a pass ends Waiting if and only if resolution succeeds and the desired set is
\* empty, and a pass never ends Active while the desired set is empty.
C6_WaitingIffNothingDesired ==
    (events > 0 /\ raised = None) =>
        LET resolved == /\ GetCharmedCloudflaredSnapChannel(snap_channel_config).exc = None
                        /\ Desired(tunnel_token_config, relations).exc = None
            empty == Desired(tunnel_token_config, relations).specs = NoSpecs
        IN  /\ status.name = "waiting" <=> (resolved /\ empty)
            /\ ~ (status.name = "active" /\ resolved /\ empty)

\* C7: with a tunnel-token config whose secret has the field tunnel-token = t, no relation
\* and no instance installed, a pass installs exactly one instance, named
\* charmed-cloudflared_config0, sets tunnel-token t and metrics-port 15299 on it, leaves its
\* resolv.conf the host's and ends Active.
C7_ConfigSource ==
    [][(/\ events' = events + 1
        /\ GetInstalledCloudflaredSnaps(snaps) = {}
        /\ GetCharmedCloudflaredSnapChannel(snap_channel_config').exc = None
        /\ DOMAIN relations' = {}
        /\ Truthy(tunnel_token_config')
        /\ SecretField(tunnel_token_config', "tunnel-token").exc = None)
       => LET name == <<"charmed-cloudflared", "_config0">>
              t == SecretField(tunnel_token_config', "tunnel-token").value
          IN  /\ status' = Status("active", <<>>)
              /\ raised' = None
              /\ GetInstalledCloudflaredSnaps(snaps') = {name}
              /\ Len(CallsOf(calls', "install")) = 1
              /\ CallsOf(calls', "install")[1].name = name
              /\ CallsOf(calls', "set") = <<Call("set", name, <<t, "1", "5", "2", "9", "9">>)>>
              /\ snaps'[name].config = LiveConfig(t, <<"1", "5", "2", "9", "9">>)
              /\ snaps'[name].resolv = File(HostResolvConf)]_vars

\* The config-source instance installed on a machine that had none.
C7_Witness ==
    /\ Truthy(tunnel_token_config)
    /\ status.name = "active"
    /\ GetInstalledCloudflaredSnaps(snaps) = {<<"charmed-cloudflared", "_config0">>}
    /\ CallsOf(calls, "install") # <<>>
    /\ snaps[<<"charmed-cloudflared", "_config0">>].config["tunnel-token"] = "bar"

\* The name and the metrics port, in decimal, the relations of the model are to get.
C8_Expected ==
    [id \in {3, 7} |->
        IF id = 3
        THEN [name |-> <<"charmed-cloudflared", "_rel", "3">>,
              port |-> <<"1", "5", "3", "0", "3">>]
        ELSE [name |-> <<"charmed-cloudflared", "_rel", "7">>,
              port |-> <<"1", "5", "3", "0", "7">>]]

OverCeiling(rels) == {id \in DOMAIN rels : id > MaxRelationId}

\* A pass over the inputs reaches the relation loop with a relation above the ceiling.
CeilingCase ==
    /\ events > 0
    /\ GetCharmedCloudflaredSnapChannel(snap_channel_config).exc = None
    /\ ~ Truthy(tunnel_token_config)
    /\ OverCeiling(relations) # {}

\* C9 as stated: with no config token and a relation whose id is above 999999, resolution
\* fails with the RuntimeError of the ceiling, also when that relation has no remote
\* application, no token, or a secret that is missing or lacks the field.
C9_CeilingWins ==
    (/\ CeilingCase
     /\ \A id \in DOMAIN relations \ OverCeiling(relations) :
            GetTunnelToken(relations[id]).exc = None)
    => raised = "RuntimeError"

\* C9 amended: with no config token and a relation whose id is above 999999, resolution
\* fails with the RuntimeError of the ceiling when the token lookup of every relation
\* succeeds, also when the relation above the ceiling has no remote application or no
\* token; when the secret of every relation above the ceiling is missing or lacks the
\* field, the pass ends Blocked with the invalid-integration message instead.
C9_CeilingAfterLookup ==
    CeilingCase =>
        /\ (\A id \in DOMAIN relations : GetTunnelToken(relations[id]).exc = None)
              => raised = "RuntimeError"
        /\ (\A id \in OverCeiling(relations) :
                GetTunnelToken(relations[id]).exc = "InvalidIntegration")
              => /\ raised = None
                 /\ status.name = "blocked"
                 /\ status.message \in {r.msg : r \in Resolutions(tunnel_token_config, relations)}

\* The ceiling error raised for a relation without a remote application.
C9_Witness ==
    /\ CeilingCase
    /\ raised = "RuntimeError"
    /\ \E id \in OverCeiling(relations) : ~ relations[id].app

\* C10: a pass whose resolution raises the ceiling error lets it leave _reconcile, does not
\* set the unit status and has issued no effect call.
C10_LimitErrorPropagates ==
    [][events' = events + 1 =>
          /\ (/\ GetCharmedCloudflaredSnapChannel(snap_channel_config').exc = None
               /\ \A r \in Resolutions(tunnel_token_config', relations') :
                      r.exc = "RuntimeError")
                => raised' = "RuntimeError"
          /\ raised' = "RuntimeError" =>
                /\ status' = status
                /\ snaps' = snaps
                /\ calls' = <<>>]_vars

\* The ceiling error left a pass on a unit that was Active with an instance installed.
C10_Witness ==
    /\ raised = "RuntimeError"
    /\ status.name = "active"
    /\ GetInstalledCloudflaredSnaps(snaps) # {}

\* The exceptions an effect call raises.
ApplyFailures == {"CalledProcessError", "SnapError", "OSError"}

\* C11: when an effect call of a pass fails, the failure leaves _reconcile, the failing call
\* is the last call of the pass, the pass does not set the status, and the machine is what
\* the calls before the failing one made of it: nothing is undone.
C11_AbortsWithoutRollback ==
    [][(events' = events + 1 /\ ~ stopped' /\ raised' # None)
       => /\ raised' \in ApplyFailures
          /\ Len(calls') >= 1
          /\ raised' = FailureOf(calls'[Len(calls')])
          /\ status' = status
          /\ snaps' = ApplyAll(snaps, calls', Len(calls') - 1)
          /\ \A i \in 1..(Len(calls') - 1) :
                 calls'[i].op = "install" => calls'[i].name \in DOMAIN snaps']_vars

\* A pass failed after it had installed an instance, which is still there, and before it
\* could touch a second required instance.
C11_Witness ==
    /\ raised \in ApplyFailures
    /\ status.name # "active"
    /\ \E i \in 1..(Len(calls) - 1) :
           calls[i].op = "install" /\ calls[i].name \in DOMAIN snaps
    /\ calls[Len(calls)].op = "stop"
    /\ Cardinality(DOMAIN relations) = 2

\* C12: a complete pass that follows an aborted pass with no input changed in between
\* ends with every desired instance installed, its stored config the desired one and its
\* daemon restarted after the last write of its config.
C12_SafeRerun ==
    [][(/\ events' = events + 1
        /\ raised \in ApplyFailures
        /\ ~ stopped'
        /\ UNCHANGED inputs
        /\ raised' = None
        /\ status'.name = "active")
       => LET specs == Desired(tunnel_token_config', relations').specs
              metrics_ports == GetInstanceMetricsPorts(tunnel_token_config', relations')
          IN  \A i \in 1..Len(specs) :
                 /\ specs[i].name \in DOMAIN snaps'
                 /\ snaps'[specs[i].name].config =
                        LiveConfig(specs[i].tunnel_token,
                                   IntToStr(metrics_ports[specs[i].name]))
                 /\ snaps'[specs[i].name].svc = "running"]_vars

\* C16: when the stop handler completes, no snap whose name starts with
\* charmed-cloudflared is left, and each such snap got exactly one remove call.
C16_StopUninstallsAll ==
    [][(~ stopped /\ stopped')
       => /\ GetInstalledCloudflaredSnaps(snaps') = {}
          /\ raised' = None
          /\ Len(calls') = Cardinality(GetInstalledCloudflaredSnaps(snaps))
          /\ \A name \in GetInstalledCloudflaredSnaps(snaps) :
                 Len(SelectSeq(calls', LAMBDA call : call = Call("remove", name, <<>>))) = 1
          /\ [n \in DOMAIN snaps' |-> snaps[n]] = snaps']_vars

\* The stop handler completed after an aborted pass and removed two instances.
C16_Witness ==
    /\ stopped
    /\ Len(calls) = 2
    /\ GetInstalledCloudflaredSnaps(snaps) = {}
    /\ status.name = "maintenance"

\* The phase of a pass an effect call belongs to.
Phase(call) == IF call.op = "remove" THEN 1 ELSE IF call.op = "install" THEN 2 ELSE 3

\* The place of an effect call in the configuration of one instance.
Step(call) ==
    CASE call.op = "refresh" -> 1
      [] call.op = "write-ca" -> 2
      [] call.op = "write-resolv" -> 3
      [] call.op = "set" -> 4
      [] call.op = "stop" -> 5
      [] call.op = "start" -> 6
      [] OTHER -> 0

\* C20: in the calls of a pass every remove precedes every install and every install
\* precedes every refresh, file write, set-config, stop and start; the calls that configure
\* one instance come in the order refresh, CA bundle, resolver file, set-config, stop, start.
C20_EffectOrder ==
    \A i, j \in 1..Len(calls) :
        i < j => /\ Phase(calls[i]) <= Phase(calls[j])
                 /\ (Phase(calls[i]) = 3 /\ calls[i].name = calls[j].name)
                       => Step(calls[i]) < Step(calls[j])

\* A complete pass removed an instance, installed two and configured them in full.
C20_Witness ==
    /\ raised = None
    /\ CallsOf(calls, "remove") # <<>>
    /\ Len(CallsOf(calls, "install")) = 2
    /\ Len(CallsOf(calls, "write-ca")) = 2
    /\ Len(CallsOf(calls, "write-resolv")) = 2
    /\ Len(CallsOf(calls, "start")) = 2

\* TRUE iff a live field of the instance called name is absent from `installed` or
\* differs from the string form of the desired value.
LiveDiffers(installed, name, token, port) ==
    \/ name \notin DOMAIN installed
    \/ \E key \in {"tunnel-token", "metrics-port"} :
          \/ key \notin DOMAIN installed[name].config
          \/ installed[name].config[key] # LiveConfig(token, IntToStr(port))[key]

\* The calls of a log with the given op on the given instance.
CallsOn(log, op, name) == SelectSeq(log, LAMBDA call : call.op = op /\ call.name = name)

\* C13: in a complete pass, for every desired instance, set-config, stop and start are
\* issued, once each, if a live field tunnel-token or metrics-port is absent or differs
\* from the string form of the desired value, and none of them is issued otherwise; no
\* stop or start is issued for an instance without a set-config in the same pass.
C13_NoOpGuard ==
    [][(events' = events + 1 /\ ~ stopped' /\ raised' = None /\ status'.name = "active")
       => LET specs == Desired(tunnel_token_config', relations').specs
              metrics_ports == GetInstanceMetricsPorts(tunnel_token_config', relations')
          IN  /\ \A i \in 1..Len(specs) :
                    LET name == specs[i].name
                        n == IF LiveDiffers(snaps, name, specs[i].tunnel_token,
                                            metrics_ports[name])
                             THEN 1 ELSE 0
                    IN  /\ Len(CallsOn(calls', "set", name)) = n
                        /\ Len(CallsOn(calls', "stop", name)) = n
                        /\ Len(CallsOn(calls', "start", name)) = n
              /\ \A k \in 1..Len(calls') :
                    calls'[k].op \in {"stop", "start"}
                        => CallsOn(calls', "set", calls'[k].name) # <<>>]_vars

\* A pass changed the token of one instance and left another, already configured, alone.
C13_Witness ==
    /\ status.name = "active"
    /\ raised = None
    /\ DOMAIN relations = {3, 7}
    /\ \E a, b \in GetInstalledCloudflaredSnaps(snaps) :
           /\ CallsOn(calls, "set", a) # <<>>
           /\ CallsOn(calls, "install", a) = <<>>
           /\ CallsOn(calls, "refresh", b) # <<>>
           /\ CallsOn(calls, "set", b) = <<>>

\* C14: no two installed instances have the same metrics-port in their config; the ports
\* _get_instance_metrics_ports gives the config-origin instance and the relations differ
\* from one another, and two relation ids never get the same port or the same name.
C14_PortsUnique ==
    /\ \A a, b \in GetInstalledCloudflaredSnaps(snaps) :
           (/\ a # b
            /\ "metrics-port" \in DOMAIN snaps[a].config
            /\ "metrics-port" \in DOMAIN snaps[b].config)
           => snaps[a].config["metrics-port"] # snaps[b].config["metrics-port"]
    /\ LET ports == GetInstanceMetricsPorts("secret:foo", relations)
       IN  /\ Cardinality(DOMAIN ports) =
                 1 + Cardinality({id \in DOMAIN relations : relations[id].app})
           /\ \A a, b \in DOMAIN ports : a # b => ports[a] # ports[b]
    /\ \A id1, id2 \in 0..12 :
           LET rels == [id \in {id1, id2} |-> AppRecord(None, None)]
               ports == GetInstanceMetricsPorts("secret:foo", rels)
           IN  /\ Cardinality(DOMAIN ports) = 1 + Cardinality({id1, id2})
               /\ \A a, b \in DOMAIN ports : a # b => ports[a] # ports[b]
               /\ IntToStr(ports[ConfigInstanceName]) = <<"1", "5", "2", "9", "9">>

\* Two instances are installed and configured, each with a metrics port.
C14_Witness ==
    /\ \E a, b \in GetInstalledCloudflaredSnaps(snaps) :
           /\ a # b
           /\ "metrics-port" \in DOMAIN snaps[a].config
           /\ "metrics-port" \in DOMAIN snaps[b].config
    /\ status.name = "active"

\* C17: when the snap channel config changes to a valid channel and the pass ends Active,
\* the pass has issued a refresh to that channel for every charmed-cloudflared instance
\* installed at its end, and every such instance tracks that channel.
C17_ChannelChangeRefreshesAll ==
    [][(/\ events' = events + 1
        /\ ~ stopped'
        /\ snap_channel_config' # snap_channel_config
        /\ GetCharmedCloudflaredSnapChannel(snap_channel_config').exc = None
        /\ raised' = None
        /\ status'.name = "active")
       => \A name \in GetInstalledCloudflaredSnaps(snaps') :
             /\ CallsOn(calls', "refresh", name) =
                    <<Call("refresh", name, snap_channel_config')>>
             /\ snaps'[name].channel = snap_channel_config']_vars

\* C18: with a tunnel-token config and no relation, a secret that is not found or lacks the
\* field tunnel-token ends the pass Blocked with 'invalid tunnel-token config'; a secret
\* that is not granted to the charm makes the store's error leave the pass, the status
\* untouched; in both cases no effect call is issued.
C18_ConfigSecretFailures ==
    [][(/\ events' = events + 1
        /\ ~ stopped'
        /\ GetCharmedCloudflaredSnapChannel(snap_channel_config').exc = None
        /\ DOMAIN relations' = {})
       => /\ tunnel_token_config' \in {"secret:missing", "secret:nofield"}
                => /\ status' = Status("blocked", <<"invalid tunnel-token config">>)
                   /\ raised' = None
                   /\ calls' = <<>>
                   /\ snaps' = snaps
          /\ tunnel_token_config' = "secret:denied"
                => /\ raised' = "ModelError"
                   /\ status' = status
                   /\ calls' = <<>>
                   /\ snaps' = snaps]_vars

\* The error of a secret that is not granted left a pass on a unit that was Active with
\* the config instance installed.
C18_Witness ==
    /\ tunnel_token_config = "secret:denied"
    /\ raised = "ModelError"
    /\ status.name = "active"
    /\ ConfigInstanceName \in DOMAIN snaps

\* C19: the outcome of resolution is that of walking the relations in ascending id order,
\* whatever the order the relation list has: the same inputs give the same mapping and,
\* when several records are faulty, the same error.
C19_OrderIndependent ==
    [][(/\ events' = events + 1
        /\ ~ stopped'
        /\ GetCharmedCloudflaredSnapChannel(snap_channel_config').exc = None)
       => LET r == Desired(tunnel_token_config', relations')
          IN  /\ r.exc = "InvalidConfig" =>
                    raised' = None /\ status' = Status("blocked", r.msg)
              /\ r.exc = "RuntimeError" => raised' = "RuntimeError"
              /\ r.exc = None => raised' = None /\ status'.name \in {"active", "waiting"}]_vars

\* C21: a pass installs an instance only if its name is a key of the desired set and it
\* is not installed; no instance is installed for a relation that has a remote application
\* but no resolvable token.
C21_InstallsDesiredOnly ==
    [][(events' = events + 1 /\ ~ stopped')
       => \A k \in 1..Len(calls') :
             calls'[k].op = "install"
                 => /\ Desired(tunnel_token_config', relations').exc = None
                    /\ calls'[k].name \in
                           SpecNames(Desired(tunnel_token_config', relations').specs)
                    /\ calls'[k].name \notin GetInstalledCloudflaredSnaps(snaps)]_vars

\* TRUE iff the config-origin instance and a relation-origin instance are both installed.
BothSources(installed) ==
    /\ <<"charmed-cloudflared", "_config0">> \in DOMAIN installed
    /\ \E name \in DOMAIN installed :
           Len(name) >= 2 /\ name[1] = "charmed-cloudflared" /\ name[2] = "_rel"

\* C22: from a machine without instances, the config-origin instance and a relation-origin
\* instance are never installed at the same time, neither after a pass (complete, Blocked,
\* Waiting or aborted) nor after any of the effect calls inside a pass.
C22_SourcesExclusive ==
    [][(events' = events + 1)
       => \A k \in 0..(IF raised' \in ApplyFailures THEN Len(calls') - 1 ELSE Len(calls')) :
             ~ BothSources(ApplyAll(snaps, calls', k))]_vars

\* A complete pass took the machine from the config-origin instance to a relation-origin
\* instance.
C22_Witness ==
    /\ raised = None
    /\ CallsOn(calls, "remove", <<"charmed-cloudflared", "_config0">>) # <<>>
    /\ \E k \in 1..Len(calls) : calls[k].op = "install" /\ calls[k].name[2] = "_rel"
    /\ ~ BothSources(snaps)

\* TRUE iff the name is one the charm gives an instance: charmed-cloudflared_config0 or
\* charmed-cloudflared_rel<id>.
Managed(name) ==
    \/ name = <<"charmed-cloudflared", "_config0">>
    \/ /\ Len(name) >= 3
       /\ name[1] = "charmed-cloudflared"
       /\ name[2] = "_rel"
       /\ \A i \in 3..Len(name) :
              name[i] \in {"0", "1", "2", "3", "4", "5", "6", "7", "8", "9"}

\* C23: a pass removes only snaps named charmed-cloudflared_config0 or
\* charmed-cloudflared_rel<id>; a snap with another name, charmed-cloudflared itself and
\* charmed-cloudflared-x included, is never removed by a pass.
C23_RemovesManagedOnly ==
    [][(events' = events + 1 /\ ~ stopped')
       => /\ \A k \in 1..Len(calls') : calls'[k].op = "remove" => Managed(calls'[k].name)
          /\ \A name \in DOMAIN snaps : ~ Managed(name) => name \in DOMAIN snaps']_vars

\* The resolv.conf content wanted for a nameserver override, None when there is none.
WantedResolvConf(nameserver) ==
    IF nameserver = None THEN <<"nameserver ", "127.0.0.53">> ELSE <<"nameserver ", nameserver>>

\* TRUE iff the resolv.conf of the instance called name is missing from `installed` or
\* differs from the wanted content.
ResolvDiffers(installed, name, nameserver) ==
    \/ name \notin DOMAIN installed
    \/ ~ installed[name].resolv.exists
    \/ installed[name].resolv.content # WantedResolvConf(nameserver)

\* C24: in a complete pass the resolv.conf of a desired instance is written, with
\* 'nameserver <override>' or the host's resolv.conf, if and only if the file is missing
\* or differs from that content; when the nameserver of an installed instance changes and
\* its token and port do not, the pass rewrites the file and issues no set-config, stop or
\* start for that instance.
C24_ResolvWriteIfChanged ==
    [][(events' = events + 1 /\ ~ stopped' /\ raised' = None /\ status'.name = "active")
       => LET specs == Desired(tunnel_token_config', relations').specs
              metrics_ports == GetInstanceMetricsPorts(tunnel_token_config', relations')
          IN  \A i \in 1..Len(specs) :
                 LET name == specs[i].name
                     wanted == WantedResolvConf(specs[i].nameserver)
                 IN  /\ CallsOn(calls', "write-resolv", name) =
                            IF ResolvDiffers(snaps, name, specs[i].nameserver)
                            THEN <<Call("write-resolv", name, wanted)>> ELSE <<>>
                     /\ snaps'[name].resolv = File(wanted)
                     /\ (/\ ResolvDiffers(snaps, name, specs[i].nameserver)
                          /\ ~ LiveDiffers(snaps, name, specs[i].tunnel_token,
                                            metrics_ports[name]))
                           => /\ CallsOn(calls', "set", name) = <<>>
                              /\ CallsOn(calls', "stop", name) = <<>>
                              /\ CallsOn(calls', "start", name) = <<>>
                              /\ snaps'[name].svc = snaps[name].svc]_vars

\* A pass rewrote the resolv.conf of a configured instance for a new nameserver and did
\* not configure or restart it, and left the file of another instance alone.
C24_Witness ==
    /\ status.name = "active"
    /\ raised = None
    /\ \E a, b \in GetInstalledCloudflaredSnaps(snaps) :
           /\ CallsOn(calls, "write-resolv", a) # <<>>
           /\ CallsOn(calls, "install", a) = <<>>
           /\ CallsOn(calls, "set", a) = <<>>
           /\ snaps[a].resolv.content = <<"nameserver ", "10.0.0.1">>
           /\ CallsOn(calls, "refresh", b) # <<>>
           /\ CallsOn(calls, "write-resolv", b) = <<>>

\* TRUE iff every character of s is one of [0-9a-z.-].
OnlyTrackChars(s) == \A i \in 1..Len(s) : s[i] \in TrackChars

\* TRUE iff the channel has one to three components, risk | track/risk |
\* track/risk/branch, a risk of stable, candidate, beta or edge, and a track and a branch
\* that are empty or made of [0-9a-z.-] only.
WellFormedChannel(channel) ==
    LET components == Split(channel, "/")
        n == Len(components)
    IN  /\ n \in 1..3
        /\ (IF n = 1 THEN components[1] ELSE components[2]) \in
               {<<"s", "t", "a", "b", "l", "e">>,
                <<"c", "a", "n", "d", "i", "d", "a", "t", "e">>,
                <<"b", "e", "t", "a">>,
                <<"e", "d", "g", "e">>}
        /\ n >= 2 => OnlyTrackChars(components[1])
        /\ n = 3 => OnlyTrackChars(components[3])

\* C25: the channel getter returns the channel unchanged if and only if the channel is
\* well formed; for every other value the pass ends Blocked with 'invalid
\* charmed-cloudflared-snap-channel configuration', whatever the token sources hold, and
\* issues no effect call.
C25_ChannelValidation ==
    [][(events' = events + 1 /\ ~ stopped')
       => IF WellFormedChannel(snap_channel_config')
          THEN /\ status' #
                     Status("blocked", <<"invalid charmed-cloudflared-snap-channel configuration">>)
               /\ \A k \in 1..Len(calls') :
                      calls'[k].op \in {"install", "refresh"}
                          => calls'[k].arg = snap_channel_config'
          ELSE /\ status' =
                     Status("blocked", <<"invalid charmed-cloudflared-snap-channel configuration">>)
               /\ raised' = None
               /\ calls' = <<>>
               /\ snaps' = snaps]_vars

\* C26: for every relation id from 0 to 999999 the metrics-port set on its instance is
\* 15300 + id and lies in the port range 1..65535.
C26_PortInRange ==
    \A id \in DOMAIN relations :
        LET name == RelationInstanceName(id)
        IN  (/\ id \in 0..999999
             /\ name \in DOMAIN snaps
             /\ "metrics-port" \in DOMAIN snaps[name].config)
            => /\ snaps[name].config["metrics-port"] = IntToStr(15300 + id)
               /\ 15300 + id \in 1..65535

(* --------------------------- specifications ---------------------------- *)

\* A snap the machine has that is no charmed-cloudflared instance.
OtherSnaps == [n \in {<<"core">>} |-> InstalledSnap(ChannelLatestStable)]

Init ==
    /\ tunnel_token_config = None
    /\ snap_channel_config = ChannelLatestStable
    /\ relations = [id \in {} |-> None]
    /\ snaps = OtherSnaps
    /\ status = Status("maintenance", <<>>)
    /\ raised = None
    /\ calls = <<>>
    /\ repeat = FALSE
    /\ stopped = FALSE
    /\ events = 0

\* Every effect call succeeds.
Next ==
    \/ TunnelTokenChanged(TunnelTokenConfigs, FALSE)
    \/ SnapChannelChanged(SnapChannelConfigs, FALSE)
    \/ RelationCreated(RelationIds, PeerRecords, FALSE)
    \/ RelationChanged(PeerRecords, FALSE)
    \/ RelationDeparted(FALSE)
    \/ Rerun(FALSE)

Spec == Init /\ [][Next]_vars

\* Every effect call succeeds; relation ids on both sides of the ceiling.
NextCeiling ==
    \/ TunnelTokenChanged({"", "secret:foo"}, FALSE)
    \/ SnapChannelChanged(SnapChannelConfigs, FALSE)
    \/ RelationCreated(CeilingRelationIds, CeilingPeerRecords, FALSE)
    \/ RelationChanged(CeilingPeerRecords, FALSE)
    \/ RelationDeparted(FALSE)
    \/ Rerun(FALSE)

SpecCeiling == Init /\ [][NextCeiling]_vars

\* The tunnel-token configs and relation records of the runs in which effect calls fail.
FailTunnelTokenConfigs == {"", "secret:foo", "secret:bar"}

FailPeerRecords == {AppRecord("secret:foo", None)}

\* Any effect call of a pass or of the stop handler may fail.
NextFail ==
    \/ TunnelTokenChanged(FailTunnelTokenConfigs, TRUE)
    \/ RelationCreated(RelationIds, FailPeerRecords, TRUE)
    \/ RelationDeparted(TRUE)
    \/ Rerun(TRUE)
    \/ OnStop(TRUE)

SpecFail == Init /\ [][NextFail]_vars

\* The records of relations that each give a token the library resolves.
PairPeerRecords == {AppRecord("secret:foo", None), AppRecord("secret:bar", None)}

\* Every effect call succeeds; the relations come, change their token and go, and the
\* tunnel-token config is set and cleared.
NextPair ==
    \/ TunnelTokenChanged({"", "secret:foo"}, FALSE)
    \/ RelationCreated(RelationIds, PairPeerRecords, FALSE)
    \/ RelationChanged(PairPeerRecords, FALSE)
    \/ RelationDeparted(FALSE)
    \/ Rerun(FALSE)

SpecPair == Init /\ [][NextPair]_vars

\* The records of relations whose remote application has or has not yet given a token.
ChannelPeerRecords == {AppRecord(None, None), AppRecord("secret:foo", None)}

\* Every effect call succeeds; the snap channel moves between two valid channels.
NextChannel ==
    \/ SnapChannelChanged({ChannelLatestStable, ChannelLatestEdge}, FALSE)
    \/ TunnelTokenChanged({"", "secret:foo"}, FALSE)
    \/ RelationCreated(RelationIds, ChannelPeerRecords, FALSE)
    \/ RelationChanged(ChannelPeerRecords, FALSE)
    \/ RelationDeparted(FALSE)
    \/ Rerun(FALSE)

SpecChannel == Init /\ [][NextChannel]_vars

\* Tunnel-token configs naming a secret that is fine, missing, without the field, or not
\* granted to the charm.
SecretTunnelTokenConfigs ==
    {"", "secret:foo", "secret:missing", "secret:nofield", "secret:denied"}

\* Every effect call succeeds; the tunnel-token config moves over the secrets.
NextSecrets ==
    \/ TunnelTokenChanged(SecretTunnelTokenConfigs, FALSE)
    \/ RelationCreated({3}, PairPeerRecords, FALSE)
    \/ RelationChanged(PairPeerRecords, FALSE)
    \/ RelationDeparted(FALSE)
    \/ Rerun(FALSE)

SpecSecrets == Init /\ [][NextSecrets]_vars

\* The records of relations with one token and with or without a nameserver.
ResolvPeerRecords ==
    {AppRecord("secret:foo", None)} \cup {AppRecord("secret:foo", ns) : ns \in Nameservers}

\* Every effect call succeeds; the relations come, change their nameserver and go.
NextResolv ==
    \/ RelationCreated(RelationIds, ResolvPeerRecords, FALSE)
    \/ RelationChanged(ResolvPeerRecords, FALSE)
    \/ RelationDeparted(FALSE)
    \/ Rerun(FALSE)

SpecResolv == Init /\ [][NextResolv]_vars

(* Channel values of every shape the validation tells apart. *)

\* risk alone
ChannelRiskOnly == <<"s", "t", "a", "b", "l", "e">>

\* an empty track
ChannelEmptyTrack == <<"/", "s", "t", "a", "b", "l", "e">>

\* an empty branch
ChannelEmptyBranch == <<"l", "a", "t", "e", "s", "t", "/", "e", "d", "g", "e", "/">>

\* track, risk and branch
ChannelWithBranch == <<"1", ".", "0", "/", "b", "e", "t", "a", "/", "f", "i", "x", "-", "1">>

\* four components
ChannelFourParts == <<"a", "/", "b", "e", "t", "a", "/", "b", "/", "c">>

\* a capital in the track
ChannelUpperTrack == <<"L", "a", "t", "e", "s", "t", "/", "s", "t", "a", "b", "l", "e">>

\* an unknown risk
ChannelBadRisk == <<"l", "a", "t", "e", "s", "t", "/", "d", "a", "i", "l", "y">>

\* a track that ends in a newline
ChannelNewlineTrack == <<"l", "a", "t", "e", "s", "t", "\n", "/", "s", "t", "a", "b", "l", "e">>

\* a risk that ends in a newline
ChannelNewlineRisk == <<"l", "a", "t", "e", "s", "t", "/", "s", "t", "a", "b", "l", "e", "\n">>

SyntaxChannels ==
    {ChannelLatestStable, ChannelEmpty, ChannelRiskOnly, ChannelEmptyTrack,
     ChannelEmptyBranch, ChannelWithBranch, ChannelFourParts, ChannelUpperTrack,
     ChannelBadRisk, ChannelNewlineTrack, ChannelNewlineRisk}

\* Every effect call succeeds; the snap channel config moves over SyntaxChannels.
NextSyntax ==
    \/ SnapChannelChanged(SyntaxChannels, FALSE)
    \/ TunnelTokenChanged({"", "secret:foo"}, FALSE)
    \/ Rerun(FALSE)

SpecSyntax == Init /\ [][NextSyntax]_vars

\* Relation ids, within the ceiling, on both sides of the last port number.
PortRelationIds == {50235, 50236}

\* Every effect call succeeds; relations with large ids come, change and go.
NextPorts ==
    \/ RelationCreated(PortRelationIds, PairPeerRecords, FALSE)
    \/ RelationChanged(PairPeerRecords, FALSE)
    \/ RelationDeparted(FALSE)
    \/ Rerun(FALSE)

SpecPorts == Init /\ [][NextPorts]_vars

\* Snaps of the machine the charm did not install, two of them with names that start
\* with charmed-cloudflared.
ForeignSnaps ==
    [n \in {<<"core">>, <<"charmed-cloudflared">>, <<"charmed-cloudflared", "-x">>} |->
        InstalledSnap(ChannelLatestStable)]

InitForeign ==
    /\ tunnel_token_config = None
    /\ snap_channel_config = ChannelLatestStable
    /\ relations = [id \in {} |-> None]
    /\ snaps = ForeignSnaps
    /\ status = Status("maintenance", <<>>)
    /\ raised = None
    /\ calls = <<>>
    /\ repeat = FALSE
    /\ stopped = FALSE
    /\ events = 0

\* The events of NextPair on a machine that has the snaps of ForeignSnaps.
SpecForeign == InitForeign /\ [][NextPair]_vars

====
